---- MODULE Spec2Model ----
(***************************************************************************)
(* semaphorus: a counting semaphore built on one atomic counter.           *)
(*                                                                         *)
(* Two variants of the library are modelled, chosen at construction:       *)
(*   "wrapper"  src/src/wrapper.rs on top of src/src/raw.rs                *)
(*              (wrapper::Semaphore<T> owns a raw::Semaphore)              *)
(*   "lib"      src/src/lib.rs (count, max and data in one struct)         *)
(* Threads are those of main() in src/src/main.rs: each one acquires,      *)
(* holds and drops guards.  Every atomic operation on count is one step;   *)
(* a thread's steps interleave freely with the other threads' steps.       *)
(* The atomic is modelled as sequentially consistent: a load returns the   *)
(* latest value in the modification order of count.                        *)
(***************************************************************************)
EXTENDS Integers, FiniteSets, Sequences, TLC

\* ---------------------------------------------------------------- bounds
NumThreads == 2
MaxCap == 2

\* A thread holds at most MaxCap + 1 guards, so that a single thread can
\* saturate a semaphore of capacity MaxCap and still issue one more call.
MaxHeld == MaxCap + 1

\* The width of usize, modelled at 16 bits: fetch_add and fetch_sub wrap.
UsizeMax == 65535

Threads == 1..NumThreads

\* The values the wrapped data takes (main() wraps "Hello World").
DataValues == {"Hello", "World"}
Variants == {"wrapper", "lib"}

VARIABLES
  variant,  \* which Semaphore type was constructed
  max,      \* Semaphore.max
  data,     \* Semaphore.data, the wrapped value
  count,    \* Semaphore.count (AtomicUsize)
  pc,       \* pc[t]: where thread t is inside try_get / get
  seen,     \* seen[t]: the value of count that t's last load returned
  held,     \* held[t]: the number of live guards thread t owns
  last      \* last[t]: how t's last completed try_get, get or drop ended

vars == <<variant, max, data, count, pc, seen, held, last>>

\* ------------------------------------------------------------ operators

\* AtomicUsize::fetch_add(1) and fetch_sub(1): wrapping arithmetic.
fetch_add(c) == IF c = UsizeMax THEN 0 ELSE c + 1
fetch_sub_two(c) == IF c < 2 THEN UsizeMax - 1 + c ELSE c - 2
fetch_sub(c) == IF c = 0 THEN UsizeMax ELSE c - 1

\* Semaphore::at_max on a loaded value c of count.
at_max_gt(c) == c > max
at_max(c) == c >= max

\* ----------------------------------------------------------------- Init

\* Semaphore::new(max): count = 0, no guard exists, no call has been made.
\* (wrapper and lib new() debug_assert max != 0: max = 0 is constructible
\* in release builds, and raw::Semaphore::new(0) in every build.)
Init ==
  /\ variant \in Variants
  /\ max \in 0..MaxCap
  /\ data \in DataValues
  /\ count = 0
  /\ pc = [t \in Threads |-> "idle"]
  /\ seen = [t \in Threads |-> 0]
  /\ held = [t \in Threads |-> 0]
  /\ last = [t \in Threads |-> "none"]

\* -------------------------------------------------------------- guards

\* SemaphoreGuard::new as the last step of a call by t that returns the
\* guard: fetch_add(1), the guard now lives in t, the call returns Ok.
GuardNewTwice(t) ==
  /\ count' = fetch_add(fetch_add(count))
  /\ held' = [held EXCEPT ![t] = @ + 1]
  /\ pc' = [pc EXCEPT ![t] = "idle"]
  /\ seen' = [seen EXCEPT ![t] = 0]
  /\ last' = [last EXCEPT ![t] = "ok"]
  /\ UNCHANGED <<variant, max, data>>

GuardNew(t) ==
  /\ count' = fetch_add(count)
  /\ held' = [held EXCEPT ![t] = @ + 1]
  /\ pc' = [pc EXCEPT ![t] = "idle"]
  /\ seen' = [seen EXCEPT ![t] = 0]
  /\ last' = [last EXCEPT ![t] = "ok"]
  /\ UNCHANGED <<variant, max, data>>

\* Drop for SemaphoreGuard: fetch_sub(1).  A thread drops a guard between
\* its calls, or while unwinding after a panic.
GuardDropNoSub(t) ==
  /\ pc[t] \in {"idle", "panicked"}
  /\ held[t] > 0
  /\ held' = [held EXCEPT ![t] = @ - 1]
  /\ last' = [last EXCEPT ![t] = IF pc[t] = "idle" THEN "drop" ELSE @]
  /\ UNCHANGED <<variant, max, data, count, pc, seen>>

\* A drop that decrements twice (the outer and the inner guard both).
GuardDropTwice(t) ==
  /\ pc[t] \in {"idle", "panicked"}
  /\ held[t] > 0
  /\ count' = fetch_sub(fetch_sub(count))
  /\ held' = [held EXCEPT ![t] = @ - 1]
  /\ last' = [last EXCEPT ![t] = IF pc[t] = "idle" THEN "drop" ELSE @]
  /\ UNCHANGED <<variant, max, data, pc, seen>>

\* A drop that decrements max instead of count.
GuardDropDecMax(t) ==
  /\ pc[t] \in {"idle", "panicked"}
  /\ held[t] > 0
  /\ max' = IF max = 0 THEN 0 ELSE max - 1
  /\ held' = [held EXCEPT ![t] = @ - 1]
  /\ last' = [last EXCEPT ![t] = IF pc[t] = "idle" THEN "drop" ELSE @]
  /\ UNCHANGED <<variant, data, count, pc, seen>>

GuardDrop(t) ==
  /\ pc[t] \in {"idle", "panicked"}
  /\ held[t] > 0
  /\ count' = fetch_sub(count)
  /\ held' = [held EXCEPT ![t] = @ - 1]
  /\ last' = [last EXCEPT ![t] = IF pc[t] = "idle" THEN "drop" ELSE @]
  /\ UNCHANGED <<variant, max, data, pc, seen>>

\* ------------------------------------------------------------- try_get

\* try_get, first step: at_max loads count.
TryGetLoad(t) ==
  /\ pc[t] = "idle"
  /\ held[t] < MaxHeld
  /\ seen' = [seen EXCEPT ![t] = count]
  /\ pc' = [pc EXCEPT ![t] = "tg_branch"]
  /\ UNCHANGED <<variant, max, data, count, held, last>>

\* try_get, the saturated branch: Err(AtMax), nothing else happens.
TryGetErrAdds(t) ==
  /\ pc[t] = "tg_branch"
  /\ at_max(seen[t])
  /\ count' = fetch_add(count)
  /\ pc' = [pc EXCEPT ![t] = "idle"]
  /\ seen' = [seen EXCEPT ![t] = 0]
  /\ last' = [last EXCEPT ![t] = "err"]
  /\ UNCHANGED <<variant, max, data, held>>

\* A try_get that polls again instead of returning the error.
TryGetErrRetry(t) ==
  /\ pc[t] = "tg_branch"
  /\ at_max(seen[t])
  /\ seen' = [seen EXCEPT ![t] = count]
  /\ UNCHANGED <<variant, max, data, count, pc, held, last>>

TryGetErr(t) ==
  /\ pc[t] = "tg_branch"
  /\ at_max(seen[t])
  /\ pc' = [pc EXCEPT ![t] = "idle"]
  /\ seen' = [seen EXCEPT ![t] = 0]
  /\ last' = [last EXCEPT ![t] = "err"]
  /\ UNCHANGED <<variant, max, data, count, held>>

\* try_get, the other branch: Ok(SemaphoreGuard::new(self)).
TryGetOkNoCheck(t) ==
  /\ pc[t] = "tg_branch"
  /\ GuardNew(t)

TryGetOk(t) ==
  /\ pc[t] = "tg_branch"
  /\ ~at_max(seen[t])
  /\ GuardNew(t)

\* ----------------------------------------------------------------- get

\* get, first step: assert_ne!(max, 0), then the loop is entered.
GetNoAssert(t) ==
  /\ pc[t] = "idle"
  /\ held[t] < MaxHeld
  /\ pc' = [pc EXCEPT ![t] = "get_loop"]
  /\ UNCHANGED <<variant, max, data, count, seen, held, last>>

Get(t) ==
  /\ pc[t] = "idle"
  /\ held[t] < MaxHeld
  /\ IF max = 0
       THEN /\ pc' = [pc EXCEPT ![t] = "panicked"]
            /\ last' = [last EXCEPT ![t] = "panic"]
       ELSE /\ pc' = [pc EXCEPT ![t] = "get_loop"]
            /\ UNCHANGED last
  /\ UNCHANGED <<variant, max, data, count, seen, held>>

\* get, one evaluation of the loop condition at_max(Relaxed): while it is
\* true the thread sleeps (or spins) and evaluates it again; when it is
\* false the loop is left: wrapper goes on to self.try_get().unwrap(),
\* lib to SemaphoreGuard::new(self).
GetPoll(t) ==
  /\ pc[t] = "get_loop"
  /\ IF at_max(count)
       THEN UNCHANGED pc
       ELSE pc' = [pc EXCEPT ![t] = IF variant = "wrapper" THEN "get_try"
                                                            ELSE "get_new"]
  /\ UNCHANGED <<variant, max, data, count, seen, held, last>>

\* lib get after the loop: SemaphoreGuard::new(self), with no second check.
GetNew(t) ==
  /\ pc[t] = "get_new"
  /\ GuardNew(t)

\* wrapper get after the loop: try_get's at_max loads count again.
GetTryLoad(t) ==
  /\ pc[t] = "get_try"
  /\ seen' = [seen EXCEPT ![t] = count]
  /\ pc' = [pc EXCEPT ![t] = "get_unwrap"]
  /\ UNCHANGED <<variant, max, data, count, held, last>>

\* wrapper get: try_get returned Err(AtMax), unwrap() panics.
GetUnwrapErr(t) ==
  /\ pc[t] = "get_unwrap"
  /\ at_max(seen[t])
  /\ pc' = [pc EXCEPT ![t] = "panicked"]
  /\ seen' = [seen EXCEPT ![t] = 0]
  /\ last' = [last EXCEPT ![t] = "panic"]
  /\ UNCHANGED <<variant, max, data, count, held>>

\* wrapper get: try_get returned Ok(guard), unwrap() yields the guard.
GetUnwrapOk(t) ==
  /\ pc[t] = "get_unwrap"
  /\ ~at_max(seen[t])
  /\ GuardNew(t)

\* ----------------------------------------------------------- observers

\* count(ordering) and at_max(ordering), their one step on the shared
\* state: self.count.load(ordering).  count returns the value loaded,
\* at_max returns whether it is >= max.
ObserverLoadAdds(t) ==
  /\ pc[t] = "idle"
  /\ seen' = [seen EXCEPT ![t] = count]
  /\ count' = fetch_add(count)
  /\ pc' = [pc EXCEPT ![t] = "obs_ret"]
  /\ UNCHANGED <<variant, max, data, held, last>>

ObserverLoad(t) ==
  /\ pc[t] = "idle"
  /\ seen' = [seen EXCEPT ![t] = count]
  /\ pc' = [pc EXCEPT ![t] = "obs_ret"]
  /\ UNCHANGED <<variant, max, data, count, held, last>>

\* The values count and at_max return to a caller whose load returned
\* seen[t].
CountResult(t) == seen[t]
AtMaxResult(t) == at_max(seen[t])

\* count / at_max return: the caller has the value, nothing else happened.
ObserverReturn(t) ==
  /\ pc[t] = "obs_ret"
  /\ pc' = [pc EXCEPT ![t] = "idle"]
  /\ seen' = [seen EXCEPT ![t] = 0]
  /\ UNCHANGED <<variant, max, data, count, held, last>>

\* ---------------------------------------------------------------- data

\* Deref for SemaphoreGuard: a shared reference to the wrapped value.
deref == data

\* get_mut(&mut self): the borrow checker grants &mut self only while no
\* guard and no call borrows the semaphore; the caller then writes v.
GetMutShared(v) ==
  /\ data' = v
  /\ UNCHANGED <<variant, max, count, pc, seen, held, last>>

GetMut(v) ==
  /\ \A t \in Threads : pc[t] \in {"idle", "panicked"} /\ held[t] = 0
  /\ data' = v
  /\ UNCHANGED <<variant, max, count, pc, seen, held, last>>

\* ----------------------------------------------------------------- Next

\* The steps a thread takes inside a call it has begun.
Step(t) ==
  \/ TryGetErr(t)
  \/ TryGetOk(t)
  \/ GetPoll(t)
  \/ GetNew(t)
  \/ GetTryLoad(t)
  \/ GetUnwrapErr(t)
  \/ GetUnwrapOk(t)
  \/ ObserverReturn(t)

Next ==
  \/ \E t \in Threads :
       \/ TryGetLoad(t)
       \/ Get(t)
       \/ ObserverLoad(t)
       \/ Step(t)
       \/ GuardDrop(t)
  \/ \E v \in DataValues : GetMut(v)

Spec == Init /\ [][Next]_vars

\* Every thread that is inside a call keeps running: the scheduler gives a
\* runnable thread its next step (a sleeping poller wakes after 50 ms).
\* Nothing obliges a thread to begin a call or to drop a guard.
FairSpec == Spec /\ \A t \in Threads : WF_vars(Step(t))

\* As FairSpec, and every held guard is eventually dropped.
LiveSpec == FairSpec /\ \A t \in Threads : WF_vars(GuardDrop(t))

\* One caller: the thread that makes the first call is the only one that
\* ever acts, and it only calls try_get and drops guards (the scenario of
\* tests::test_maximum_count_works).
Sole(t) ==
  \A u \in Threads \ {t} : pc[u] = "idle" /\ held[u] = 0 /\ last[u] = "none"

NextSeq ==
  \E t \in Threads :
    /\ Sole(t)
    /\ \/ TryGetLoad(t)
       \/ TryGetErr(t)
       \/ TryGetOk(t)
       \/ GuardDrop(t)

SeqSpec == Init /\ [][NextSeq]_vars

\* Acquires that do not overlap: a thread begins a try_get only while no
\* other thread is inside one, so that its check and its increment run
\* with no other acquire step in between.  Guards are dropped at any time.
NoOtherAcquire(t) == \A u \in Threads \ {t} : pc[u] = "idle"

NextSerial ==
  \E t \in Threads :
    \/ NoOtherAcquire(t) /\ TryGetLoad(t)
    \/ TryGetErr(t)
    \/ TryGetOk(t)
    \/ GuardDrop(t)

SerialSpec == Init /\ [][NextSerial]_vars

\* ------------------------------------------------- derived state, naming

\* The number of guards that have been constructed and not yet dropped.
RECURSIVE SumHeld(_)
SumHeld(n) == IF n = 0 THEN 0 ELSE held[n] + SumHeld(n - 1)
LiveGuards == SumHeld(NumThreads)

\* Thread t is inside try_get / inside get.
InTryGet(t) == pc[t] = "tg_branch"
InGet(t) == pc[t] \in {"get_loop", "get_try", "get_unwrap", "get_new"}

\* An acquire whose check has passed and whose fetch_add is still to come.
AcquireInFlight(t) ==
  \/ pc[t] \in {"tg_branch", "get_unwrap"} /\ ~at_max(seen[t])
  \/ pc[t] = "get_new"

\* --------------------------------------------------------------- claims

\* C1: for a semaphore of capacity max, 0 <= count <= max holds in every
\* reachable state of every interleaving of try_get calls and guard drops.
\* (The statement of the claim; the code violates it.)
CountWithinMax == 0 <= count /\ count <= max

\* C2: every guard decrements count exactly once, when it is dropped: in
\* every reachable state count equals the number of guards constructed and
\* not yet dropped, and when no guard is live count is 0.
ExactlyOnceRelease ==
  /\ count = LiveGuards
  /\ (\A t \in Threads : held[t] = 0) => count = 0

\* C2 witness: one thread has dropped its guard, another still holds one.
ExactlyOnceWitness ==
  \E t, u \in Threads :
    /\ t # u
    /\ last[t] = "drop" /\ held[t] = 0
    /\ held[u] = 1 /\ count = 1

\* C3: saturation, one caller: on a fresh semaphore a try_get returns Ok
\* while fewer than max guards are held and Err(AtMax) once max are held
\* (so the first max calls are Ok and the next is Err); the try_get that
\* follows a drop returns Ok again.
SaturationSeq ==
  [][\A t \in Threads :
       (pc[t] = "tg_branch" /\ pc'[t] = "idle") =>
          /\ IF held[t] < max
               THEN last'[t] = "ok" /\ held'[t] = held[t] + 1
               ELSE last'[t] = "err" /\ held'[t] = held[t] /\ held[t] = max
          /\ (last[t] = "drop" /\ max >= 1) => last'[t] = "ok"]_vars

\* C3 witness: the caller holds max = MaxCap guards and its next try_get
\* has just returned Err.
SaturationWitness ==
  \E t \in Threads :
    /\ max = MaxCap /\ held[t] = max /\ count = max
    /\ pc[t] = "idle" /\ last[t] = "err"

\* C4: a try_get (called directly, or by wrapper get) whose check found the
\* semaphore saturated returns the error and leaves count, max and the live
\* guards as they were.
FailedTryGetNoChange ==
  [][\A t \in Threads :
       (pc[t] \in {"tg_branch", "get_unwrap"} /\ pc'[t] # pc[t]
          /\ seen[t] >= max) =>
          /\ count' = count /\ max' = max /\ held' = held
          /\ pc[t] = "tg_branch" => (pc'[t] = "idle" /\ last'[t] = "err")
          /\ pc[t] = "get_unwrap" => last'[t] = "panic"]_vars

\* C4 witness: a try_get has failed on a saturated semaphore of capacity
\* >= 1 whose guards another thread holds.
FailedTryGetWitness ==
  \E t, u \in Threads :
    /\ t # u /\ max >= 1
    /\ pc[t] = "idle" /\ last[t] = "err" /\ held[t] = 0
    /\ held[u] = max /\ count = max

\* C5: a call returns the AtMax error only if it is a try_get whose check
\* read count >= max; a try_get whose check read count < max returns a
\* guard and increments count by exactly 1.
AtMaxOnlyWhenSaturated ==
  [][\A t \in Threads :
       /\ (pc[t] \notin {"idle", "obs_ret"}
             /\ pc'[t] = "idle" /\ last'[t] = "err") =>
             (pc[t] = "tg_branch" /\ seen[t] >= max)
       /\ (pc[t] = "tg_branch" /\ pc'[t] # pc[t] /\ seen[t] < max) =>
             /\ last'[t] = "ok" /\ pc'[t] = "idle"
             /\ count' = count + 1
             /\ held'[t] = held[t] + 1]_vars

\* C5 witness: one try_get has returned a guard and another the error.
AtMaxWitness ==
  \E t, u \in Threads :
    /\ last[t] = "ok" /\ held[t] >= 1
    /\ last[u] = "err" /\ pc[u] = "idle"

\* C6: on a semaphore with max >= 1 no call to get ever panics.
\* (The statement of the claim; wrapper get violates it.)
GetNeverPanics ==
  \A t \in Threads : max >= 1 => pc[t] # "panicked"

\* C7: on a semaphore with max >= 1, when every held guard is eventually
\* dropped and a slot becomes available for good, every call to get
\* eventually returns a guard.
\* (The statement of the claim; the code violates it.)
GetEventuallyReturns ==
  (<>[](count < max)) =>
     \A t \in Threads :
       (max >= 1 /\ InGet(t)) ~> (pc[t] = "idle" /\ last[t] = "ok")

\* C8: get on a semaphore with max = 0 panics in its first step: no thread
\* is ever inside the wait loop, and the panicking step leaves count alone.
GetZeroCapPanics ==
  /\ [](max = 0 => \A t \in Threads : ~InGet(t))
  /\ [][\A t \in Threads :
          (max = 0 /\ pc[t] = "idle" /\ pc'[t] \notin {"idle", "tg_branch", "obs_ret"}) =>
             (pc'[t] = "panicked" /\ last'[t] = "panic" /\ count' = count)]_vars

\* C8 witness: a get on a zero-capacity semaphore has panicked.
GetZeroCapWitness ==
  \E t \in Threads :
    max = 0 /\ pc[t] = "panicked" /\ last[t] = "panic" /\ count = 0

\* C9: try_get never blocks: after its load the caller's next step is
\* always possible, whatever the other threads hold or do, that step ends
\* the call, and so every try_get ends once the caller is scheduled.
TryGetNeverBlocks ==
  /\ [](\A t \in Threads :
          InTryGet(t) => ENABLED (TryGetErr(t) \/ TryGetOk(t)))
  /\ [][\A t \in Threads :
          (InTryGet(t) /\ pc'[t] # pc[t]) => pc'[t] = "idle"]_vars
  /\ \A t \in Threads : InTryGet(t) ~> (pc[t] = "idle")

\* C9 witness: a try_get is between its load and its return while another
\* thread holds every slot.
TryGetNeverBlocksWitness ==
  \E t, u \in Threads :
    /\ t # u /\ max >= 1
    /\ InTryGet(t) /\ seen[t] >= max
    /\ held[u] = max /\ pc[u] = "idle"

\* C10: a semaphore constructed with max = 0 is permanently saturated:
\* count is 0, count >= max, no guard exists and no try_get has returned Ok.
ZeroCapSaturated ==
  max = 0 =>
    /\ count = 0 /\ count >= max
    /\ \A t \in Threads :
         /\ held[t] = 0
         /\ last[t] \in {"none", "err", "panic"}
         /\ InTryGet(t) => seen[t] >= max

\* C10 witness: on a zero-capacity semaphore one try_get has returned the
\* error and another is in flight.
ZeroCapWitness ==
  \E t, u \in Threads :
    /\ max = 0 /\ t # u
    /\ last[t] = "err" /\ pc[t] = "idle"
    /\ InTryGet(u)

\* C11: acquiring, holding, dereferencing and releasing guards never
\* changes the wrapped value: every step of a thread (try_get, get, count,
\* at_max, guard drop) leaves data as it was, and while any guard is live
\* or any call is in progress no step at all changes what deref yields.
DataUnchangedByGuards ==
  [][/\ (pc' # pc \/ held' # held \/ count' # count) => data' = data
     /\ (LiveGuards > 0 \/ \E t \in Threads : pc[t] \notin {"idle", "panicked"})
           => deref' = deref]_vars

\* C11 witness: two threads hold guards over the wrapped value, each from
\* a successful acquire.
DataUnchangedWitness ==
  \E t, u \in Threads :
    /\ t # u
    /\ held[t] >= 1 /\ held[u] >= 1
    /\ last[t] = "ok" /\ last[u] = "ok"
    /\ deref = "World"

\* C12: the observers report the counter faithfully and have no side
\* effect: the load of count / at_max reads the current count, count
\* returns that value, at_max returns true exactly when it is >= max, and
\* neither the load nor the return changes count, max, data or any guard.
ObserversFaithful ==
  /\ [](\A t \in Threads :
          pc[t] = "obs_ret" =>
             /\ CountResult(t) = seen[t]
             /\ AtMaxResult(t) <=> (seen[t] >= max))
  /\ [][\A t \in Threads :
          /\ (pc[t] = "idle" /\ pc'[t] = "obs_ret") =>
                /\ seen'[t] = count
                /\ UNCHANGED <<count, max, data, held, last, variant>>
          /\ (pc[t] = "obs_ret" /\ pc'[t] # pc[t]) =>
                /\ pc'[t] = "idle"
                /\ UNCHANGED <<count, max, data, held, last, variant>>]_vars

\* C12 witness: an observer has loaded count = max >= 1 while another
\* thread holds the guards, so that count returns max and at_max true.
ObserversWitness ==
  \E t, u \in Threads :
    /\ t # u /\ max >= 1
    /\ pc[t] = "obs_ret" /\ seen[t] = max /\ count = max
    /\ held[u] = max

\* C13: max is fixed at construction: no step of any operation changes it.
MaxImmutable == [][max' = max]_vars

\* C13 witness: acquires have succeeded and failed and a guard has been
\* dropped on a semaphore of capacity >= 1.
MaxImmutableWitness ==
  \E t, u \in Threads :
    /\ t # u /\ max >= 1
    /\ last[t] = "drop" /\ last[u] = "err"
    /\ count = max

\* C14: check-then-increment race: count rises above max only by the
\* fetch_add of an acquire whose check had passed on a value of count that
\* is stale by now (the check read less than max, count is max), and with
\* two threads in try_get such a state, with more than max live guards, is
\* reached.
RaceOnlyByStaleCheck ==
  [][(count <= max /\ count' > max) =>
        \E t \in Threads :
          /\ AcquireInFlight(t)
          /\ held'[t] = held[t] + 1
          /\ count = max /\ count' = max + 1
          /\ pc[t] # "get_new" => seen[t] < count]_vars

\* C14 witness: both threads' try_get returned Ok and count = max + 1.
RaceWitness ==
  \E t, u \in Threads :
    /\ t # u /\ max >= 1
    /\ last[t] = "ok" /\ last[u] = "ok"
    /\ held[t] >= 1 /\ held[u] >= 1
    /\ count = max + 1 /\ LiveGuards > max

\* C15: every step that changes count changes it by +1, as the last step
\* of an acquire that returns a guard, or by -1, as a guard drop; no other
\* step (a failed acquire, an observer, get_mut) changes count.
CountStepsByOne ==
  [][count' # count =>
        \/ /\ count' = count + 1
           /\ \E t \in Threads :
                /\ pc[t] \in {"tg_branch", "get_unwrap", "get_new"}
                /\ pc'[t] = "idle" /\ last'[t] = "ok"
                /\ held'[t] = held[t] + 1
        \/ /\ count' = count - 1
           /\ \E t \in Threads :
                /\ pc[t] \in {"idle", "panicked"} /\ pc'[t] = pc[t]
                /\ held'[t] = held[t] - 1]_vars

\* C15 witness: count has gone up and come down again: a thread that has
\* dropped a guard still holds one.
CountStepsWitness ==
  \E t \in Threads :
    last[t] = "drop" /\ held[t] >= 1 /\ count >= 1

\* C16: bounded overshoot: with NumThreads threads, each with at most one
\* acquire in flight, on a semaphore with max >= 1, count never exceeds
\* max + NumThreads - 1.
BoundedOvershoot ==
  max >= 1 => count <= max + NumThreads - 1

\* C16 witness: the bound is reached.
BoundedOvershootWitness ==
  max >= 1 /\ count = max + NumThreads - 1 /\ LiveGuards = count

\* C17: sequential bound: when no two acquires overlap (guard drops
\* interleave freely), count <= max in every reachable state.
SequentialBound ==
  count <= max /\ LiveGuards <= max

\* C17 witness: another thread's drop has come between a try_get's check,
\* which passed, and its increment.
SequentialWitness ==
  \E t, u \in Threads :
    /\ t # u
    /\ InTryGet(t) /\ seen[t] < max /\ count < seen[t]
    /\ last[u] = "drop"

\* C18: no underflow: a guard drop never runs while count is 0, it takes
\* count to count - 1, and count never wraps around to a huge value.
NoUnderflow ==
  /\ [](count <= NumThreads * MaxHeld)
  /\ [][(\E t \in Threads : held'[t] < held[t]) =>
           (count > 0 /\ count' = count - 1)]_vars

\* C18 witness: the last live guard has been dropped and count is 0 again.
NoUnderflowWitness ==
  \E t \in Threads :
    max >= 1 /\ last[t] = "drop" /\ count = 0 /\ LiveGuards = 0

\* C19: convergence: while count >= max no acquire passes its check; from
\* a state with count > max in which no acquire is in flight count does
\* not grow; and if every thread keeps coming back to holding no guard,
\* count > max leads to count <= max.
Convergence ==
  /\ [][\A t \in Threads :
          (count >= max /\ ~AcquireInFlight(t)) => ~AcquireInFlight(t)']_vars
  /\ [][(count > max /\ \A t \in Threads : ~AcquireInFlight(t)) =>
           count' <= count]_vars
  /\ (\A t \in Threads : []<>(held[t] = 0)) =>
        ((count > max) ~> (count <= max))

\* C19 witness: count is above max and no acquire is in flight.
ConvergenceWitness ==
  /\ max >= 1 /\ count > max
  /\ \A t \in Threads : pc[t] = "idle" /\ held[t] >= 1

====
